---- MODULE Spec2Model ----
(***************************************************************************)
(* Model of yaml_reindenter.py: the YamlReindenter session (load_file,     *)
(* detect_pipe_blocks, get_block_content, check_indentation,               *)
(* fix_indentation, analyze, reindent, save_file) and the CLI main().      *)
(*                                                                         *)
(* A string is a sequence of one-character strings; a line number is the   *)
(* 0-based Python index, so line i of a buffer ls is ls[i + 1].            *)
(***************************************************************************)
EXTENDS Integers, Sequences, FiniteSets, TLC

VARIABLES
  disk,       \* the files: path -> bytes, or Absent
  content,    \* self.content
  lines,      \* self.lines
  orig,       \* the bytes the last successful load_file read
  op,         \* the method called last
  ret,        \* the boolean the last load_file / reindent / save_file returned
  issues,     \* the list the last analyze returned
  saved_to,   \* the path the last save_file saved to, "none" if it returned false
  fs,         \* what the file system did in the last call, "none" if not reached
  other,      \* a second YamlReindenter object, on another file
  argv,       \* sys.argv of the CLI run
  pc,         \* the position in main()
  exit_code,  \* the exit code of the run, -1 while it runs
  printed,    \* the issues main() printed
  writes      \* the number of files the run has written

vars == <<disk, content, lines, orig, op, ret, issues, saved_to, fs, other,
          argv, pc, exit_code, printed, writes>>

session == <<content, lines>>
cli == <<argv, pc, exit_code, printed, writes>>

(***************************************************************************)
(* Bounds of the model.                                                    *)
(***************************************************************************)
\* most lines of a document drawn for the in-memory session
MaxLines == 3
\* most leading spaces of a line of a drawn document
MaxIndent == 2
\* most lines of a file drawn for the session with files and for the CLI
MaxFileLines == 4
MaxNestedLines == 4
MaxPairLines == 2

(***************************************************************************)
(* Characters and Python string primitives.                                *)
(***************************************************************************)
SP == " "
TAB == "\t"
NL == "\n"

\* Optional[...] = None
None == <<"None">>
\* a path with no file
Absent == <<"Absent">>

\* the characters str.lstrip()/str.strip() remove and the regex class \s
\* matches, among the characters of the model
IsWhitespace(c) == c \in {SP, TAB, NL}

RECURSIVE lstrip(_)
lstrip(s) ==
  IF s = <<>> THEN <<>>
  ELSE IF IsWhitespace(Head(s)) THEN lstrip(Tail(s))
  ELSE s

RECURSIVE rstrip(_)
rstrip(s) ==
  IF s = <<>> THEN <<>>
  ELSE IF IsWhitespace(s[Len(s)]) THEN rstrip(SubSeq(s, 1, Len(s) - 1))
  ELSE s

strip(s) == rstrip(lstrip(s))

\* " " * n
RECURSIVE spaces(_)
spaces(n) == IF n <= 0 THEN <<>> ELSE <<SP>> \o spaces(n - 1)

\* index of the first newline of s, 0 when there is none
RECURSIVE find_nl(_, _)
find_nl(s, i) ==
  IF i > Len(s) THEN 0
  ELSE IF s[i] = NL THEN i
  ELSE find_nl(s, i + 1)

\* str.splitlines(): no line for the empty string, no empty last line after
\* a final newline
RECURSIVE splitlines(_)
splitlines(s) ==
  IF s = <<>> THEN <<>>
  ELSE LET i == find_nl(s, 1)
       IN IF i = 0 THEN <<s>>
          ELSE <<SubSeq(s, 1, i - 1)>> \o splitlines(SubSeq(s, i + 1, Len(s)))

\* "\n".join(ls)
RECURSIVE join(_)
join(ls) ==
  IF ls = <<>> THEN <<>>
  ELSE IF Len(ls) = 1 THEN ls[1]
  ELSE ls[1] \o <<NL>> \o join(Tail(ls))

\* str.endswith("\n")
endswith_nl(s) == s # <<>> /\ s[Len(s)] = NL

\* Python truthiness of self.content: None and "" are falsy
truthy(c) == c # None /\ c # <<>>

(***************************************************************************)
(* The analysis functions of YamlReindenter.                               *)
(***************************************************************************)
\* len(line) - len(line.lstrip())
indent_of(line) == Len(line) - Len(lstrip(line))

\* \s*\| matched at position j of line
RECURSIVE match_ws_pipe(_, _)
match_ws_pipe(line, j) ==
  IF j > Len(line) THEN FALSE
  ELSE IF line[j] = "|" THEN TRUE
  ELSE IF IsWhitespace(line[j]) THEN match_ws_pipe(line, j + 1)
  ELSE FALSE

\* re.search(r":\s*\|", line)
re_search_pipe(line) ==
  \E i \in 1..Len(line) : line[i] = ":" /\ match_ws_pipe(line, i + 1)

RECURSIVE detect_from(_, _)
detect_from(ls, i) ==
  IF i >= Len(ls) THEN <<>>
  ELSE (IF re_search_pipe(ls[i + 1])
        THEN <<[line_num |-> i, pipe_indent |-> indent_of(ls[i + 1]),
                key_line |-> ls[i + 1]]>>
        ELSE <<>>) \o detect_from(ls, i + 1)

detect_pipe_blocks(ls) == detect_from(ls, 0)

\* the loop of get_block_content with < in place of <= in the test that
\* ends the block
RECURSIVE scan_from_lt(_, _, _)
scan_from_lt(ls, i, pipe_indent) ==
  IF i >= Len(ls) THEN <<>>
  ELSE LET line == ls[i + 1]
       IN IF strip(line) = <<>> THEN <<i>> \o scan_from_lt(ls, i + 1, pipe_indent)
          ELSE IF indent_of(line) < pipe_indent THEN <<>>
          ELSE <<i>> \o scan_from_lt(ls, i + 1, pipe_indent)

\* the loop of get_block_content without the break: every line up to the
\* end of the document is content
RECURSIVE scan_from_to_end(_, _, _)
scan_from_to_end(ls, i, pipe_indent) ==
  IF i >= Len(ls) THEN <<>>
  ELSE <<i>> \o scan_from_to_end(ls, i + 1, pipe_indent)

\* the loop of get_block_content from line i on
RECURSIVE scan_from(_, _, _)
scan_from(ls, i, pipe_indent) ==
  IF i >= Len(ls) THEN <<>>
  ELSE LET line == ls[i + 1]
       IN IF strip(line) = <<>> THEN <<i>> \o scan_from(ls, i + 1, pipe_indent)
          ELSE IF indent_of(line) <= pipe_indent THEN <<>>
          ELSE <<i>> \o scan_from(ls, i + 1, pipe_indent)

\* get_block_content that takes the opener line as the first content line
get_block_content_from_opener(ls, start_line, pipe_indent) ==
  [content_lines |-> <<start_line>> \o scan_from(ls, start_line + 1, pipe_indent),
   expected_indent |-> pipe_indent + 2]

get_block_content(ls, start_line, pipe_indent) ==
  [content_lines |-> scan_from(ls, start_line + 1, pipe_indent),
   expected_indent |-> pipe_indent + 2]

\* check_indentation without the skip of blank lines
RECURSIVE check_indentation_noskip(_, _, _)
check_indentation_noskip(ls, line_nums, expected_indent) ==
  IF line_nums = <<>> THEN <<>>
  ELSE LET ln == Head(line_nums)
           line == ls[ln + 1]
           rest == check_indentation_noskip(ls, Tail(line_nums), expected_indent)
       IN IF indent_of(line) # expected_indent
          THEN <<[line_num |-> ln, current_indent |-> indent_of(line),
                  expected_indent |-> expected_indent]>> \o rest
          ELSE rest

\* check_indentation with < in place of != : a line indented too far passes
RECURSIVE check_indentation_under(_, _, _)
check_indentation_under(ls, line_nums, expected_indent) ==
  IF line_nums = <<>> THEN <<>>
  ELSE LET ln == Head(line_nums)
           line == ls[ln + 1]
           rest == check_indentation_under(ls, Tail(line_nums), expected_indent)
       IN IF strip(line) = <<>> THEN rest
          ELSE IF indent_of(line) < expected_indent
               THEN <<[line_num |-> ln, current_indent |-> indent_of(line),
                       expected_indent |-> expected_indent]>> \o rest
               ELSE rest

RECURSIVE check_indentation(_, _, _)
check_indentation(ls, line_nums, expected_indent) ==
  IF line_nums = <<>> THEN <<>>
  ELSE LET ln == Head(line_nums)
           line == ls[ln + 1]
           rest == check_indentation(ls, Tail(line_nums), expected_indent)
       IN IF strip(line) = <<>> THEN rest
          ELSE IF indent_of(line) # expected_indent
               THEN <<[line_num |-> ln, current_indent |-> indent_of(line),
                       expected_indent |-> expected_indent]>> \o rest
               ELSE rest

\* fix_line with line.strip() in place of line.lstrip()
fix_line_strip(fixed_lines, issue) ==
  [fixed_lines EXCEPT ![issue.line_num + 1] =
     spaces(issue.expected_indent) \o strip(fixed_lines[issue.line_num + 1])]

\* fix_line that indents by the current_indent of the issue
fix_line_current(fixed_lines, issue) ==
  [fixed_lines EXCEPT ![issue.line_num + 1] =
     spaces(issue.current_indent) \o lstrip(fixed_lines[issue.line_num + 1])]

\* one issue applied to the copy of the line buffer
fix_line(fixed_lines, issue) ==
  [fixed_lines EXCEPT ![issue.line_num + 1] =
     spaces(issue.expected_indent) \o lstrip(fixed_lines[issue.line_num + 1])]

\* the loop of fix_indentation, with the trailing whitespace of every line
\* of the copy removed at its end
RECURSIVE fix_all_rstrips(_, _)
fix_all_rstrips(fixed_lines, iss) ==
  IF iss = <<>> THEN [i \in 1..Len(fixed_lines) |-> rstrip(fixed_lines[i])]
  ELSE fix_all_rstrips(fix_line(fixed_lines, Head(iss)), Tail(iss))

RECURSIVE fix_all(_, _)
fix_all(fixed_lines, iss) ==
  IF iss = <<>> THEN fixed_lines
  ELSE fix_all(fix_line(fixed_lines, Head(iss)), Tail(iss))

\* fix_indentation that rebuilds the content from the lines before it looks
\* at the issues
fix_indentation_rebuilds(c, ls, iss) ==
  IF iss = <<>> THEN [content |-> join(ls), lines |-> ls, ret |-> FALSE]
  ELSE LET fixed_lines == fix_all(ls, iss)
       IN [content |-> join(fixed_lines), lines |-> fixed_lines, ret |-> TRUE]

\* the session after fix_indentation(iss) and the value it returns
fix_indentation(c, ls, iss) ==
  IF iss = <<>> THEN [content |-> c, lines |-> ls, ret |-> FALSE]
  ELSE LET fixed_lines == fix_all(ls, iss)
       IN [content |-> join(fixed_lines), lines |-> fixed_lines, ret |-> TRUE]

RECURSIVE analyze_blocks(_, _)
analyze_blocks(ls, blocks) ==
  IF blocks = <<>> THEN <<>>
  ELSE LET block == Head(blocks)
           bc == get_block_content(ls, block.line_num, block.pipe_indent)
       IN check_indentation(ls, bc.content_lines, bc.expected_indent)
            \o analyze_blocks(ls, Tail(blocks))

analyze(c, ls) ==
  IF ~truthy(c) THEN <<>>
  ELSE analyze_blocks(ls, detect_pipe_blocks(ls))

reindent(c, ls) ==
  LET iss == analyze(c, ls)
  IN IF iss = <<>> THEN [content |-> c, lines |-> ls, ret |-> FALSE]
     ELSE fix_indentation(c, ls, iss)

(***************************************************************************)
(* Files.                                                                  *)
(***************************************************************************)
\* self.yaml_file, and the other path a caller can save to
yaml_file == "in"
Paths == {"in", "out", "in2"}

\* load_file that clears the session before it opens the file
load_file_reset(d, c, ls, io) ==
  IF d[yaml_file] # Absent /\ io = "ok"
  THEN [content |-> d[yaml_file], lines |-> splitlines(d[yaml_file]), ret |-> TRUE]
  ELSE [content |-> None, lines |-> None, ret |-> FALSE]

\* load_file: the session after the call and the value it returns; io is
\* what the file system does ("error": the read raises)
load_file(d, c, ls, io) ==
  IF d[yaml_file] # Absent /\ io = "ok"
  THEN [content |-> d[yaml_file], lines |-> splitlines(d[yaml_file]), ret |-> TRUE]
  ELSE [content |-> c, lines |-> ls, ret |-> FALSE]

\* written_bytes with the newline written unconditionally
written_bytes_always_nl(c) == c \o <<NL>>

\* written_bytes with the newline never written
written_bytes_never_nl(c) == c

\* what save_file writes for content c
written_bytes(c) == IF endswith_nl(c) THEN c ELSE c \o <<NL>>

\* save_file without the "No content to save" check
save_file_unguarded(d, c, output_file, io) ==
  LET out == IF output_file = None THEN yaml_file ELSE output_file[1]
  IN IF io = "ok"
     THEN [disk |-> [d EXCEPT ![out] = written_bytes(c)], ret |-> TRUE,
           wrote |-> TRUE, tried |-> TRUE]
     ELSE IF io = "write_error"
     THEN [disk |-> [d EXCEPT ![out] = <<>>], ret |-> FALSE,
           wrote |-> TRUE, tried |-> TRUE]
     ELSE [disk |-> d, ret |-> FALSE, wrote |-> FALSE, tried |-> TRUE]

\* save_file that writes the source path whatever output_file says
save_file_to_source(d, c, output_file, io) ==
  IF ~truthy(c)
  THEN [disk |-> d, ret |-> FALSE, wrote |-> FALSE, tried |-> FALSE]
  ELSE LET out == yaml_file
       IN IF io = "ok"
          THEN [disk |-> [d EXCEPT ![out] = written_bytes(c)], ret |-> TRUE,
                wrote |-> TRUE, tried |-> TRUE]
          ELSE IF io = "write_error"
          THEN [disk |-> [d EXCEPT ![out] = <<>>], ret |-> FALSE,
                wrote |-> TRUE, tried |-> TRUE]
          ELSE [disk |-> d, ret |-> FALSE, wrote |-> FALSE, tried |-> TRUE]

\* save_file(output_file): the disk after the call, the value it returns,
\* whether open(out, "w") was called (tried) and whether it created or
\* truncated the file (wrote); output_file is None
\* or a path; io is what the file system does ("open_error": open raises,
\* "write_error": open truncates the file and the write raises)
save_file(d, c, output_file, io) ==
  IF ~truthy(c)
  THEN [disk |-> d, ret |-> FALSE, wrote |-> FALSE, tried |-> FALSE]
  ELSE LET out == IF output_file = None THEN yaml_file ELSE output_file[1]
       IN IF io = "ok"
          THEN [disk |-> [d EXCEPT ![out] = written_bytes(c)], ret |-> TRUE,
                wrote |-> TRUE, tried |-> TRUE]
          ELSE IF io = "write_error"
          THEN [disk |-> [d EXCEPT ![out] = <<>>], ret |-> FALSE,
                wrote |-> TRUE, tried |-> TRUE]
          ELSE [disk |-> d, ret |-> FALSE, wrote |-> FALSE, tried |-> TRUE]

\* the outcomes of a read and of a write
ReadIO == {"ok", "error"}
WriteIO == {"ok", "open_error", "write_error"}

(***************************************************************************)
(* Documents drawn as input.                                               *)
(***************************************************************************)
\* what follows the leading spaces of a drawn line: nothing, text, an opener
Bodies == {<<>>, <<"a">>, <<":", "|">>}

\* the drawn lines with a tab: text behind a tab and before a trailing
\* space, an opener whose colon and pipe are separated by a tab
TabLines == {<<TAB, "a", SP>>, <<":", TAB, "|">>}

LineSet == {spaces(k) \o b : k \in 0..MaxIndent, b \in Bodies} \cup TabLines

\* the lines of the files: blank, opener, body line at the expected
\* indentation, body line indented too far
FileLineSet == {<<>>, <<":", "|">>, spaces(2) \o <<"a">>, spaces(3) \o <<"a">>}

\* the lines of the documents with openers inside blocks: openers and text
\* at every indentation
NestedLineSet == {spaces(k) \o b : k \in 0..MaxIndent, b \in {<<"a">>, <<":", "|">>}}

\* the lines of the files of two sessions: an opener, a text line indented
\* too far, one indented too little
PairLineSet == {<<":", "|">>, spaces(3) \o <<"a">>, spaces(1) \o <<"a">>}

RECURSIVE SeqsUpTo(_, _)
SeqsUpTo(S, n) ==
  IF n = 0 THEN {<<>>}
  ELSE LET shorter == SeqsUpTo(S, n - 1)
       IN shorter \cup {<<x>> \o s : x \in S, s \in {t \in shorter : Len(t) = n - 1}}

\* a file is its lines joined by newlines; a last line that is empty gives
\* the file that ends with a newline
Docs == {join(ls) : ls \in SeqsUpTo(LineSet, MaxLines)}
FileDocs == {join(ls) : ls \in SeqsUpTo(FileLineSet, MaxFileLines)}
NestedDocs == {join(ls) : ls \in SeqsUpTo(NestedLineSet, MaxNestedLines)}
PairDocs == {join(ls) : ls \in SeqsUpTo(PairLineSet, MaxPairLines)}

(***************************************************************************)
(* The session: one action per public method.                              *)
(***************************************************************************)
Load ==
  \E io \in ReadIO :
    LET r == load_file(disk, content, lines, io)
    IN /\ content' = r.content
       /\ lines' = r.lines
       /\ orig' = IF r.ret THEN disk[yaml_file] ELSE orig
       /\ op' = "load_file"
       /\ ret' = r.ret
       /\ issues' = <<>>
       /\ saved_to' = "none"
       /\ fs' = IF disk[yaml_file] = Absent THEN "missing" ELSE io
       /\ UNCHANGED <<other, disk, cli>>

\* analyze that strips the trailing whitespace of the lines it reads
AnalyzeStripsLines ==
  /\ op' = "analyze"
  /\ issues' = analyze(content, lines)
  /\ ret' = FALSE
  /\ saved_to' = "none"
  /\ fs' = "none"
  /\ lines' = IF lines = None THEN lines
              ELSE [i \in 1..Len(lines) |-> rstrip(lines[i])]
  /\ UNCHANGED <<other, disk, content, orig, cli>>

Analyze ==
  /\ op' = "analyze"
  /\ issues' = analyze(content, lines)
  /\ ret' = FALSE
  /\ saved_to' = "none"
  /\ fs' = "none"
  /\ UNCHANGED <<other, disk, content, lines, orig, cli>>

Reindent ==
  LET r == reindent(content, lines)
  IN /\ content' = r.content
     /\ lines' = r.lines
     /\ op' = "reindent"
     /\ ret' = r.ret
     /\ issues' = <<>>
     /\ saved_to' = "none"
     /\ fs' = "none"
     /\ UNCHANGED <<other, disk, orig, cli>>

Save ==
  \E out \in {None, <<"out">>}, io \in WriteIO :
    LET r == save_file(disk, content, out, io)
    IN /\ disk' = r.disk
       /\ op' = "save_file"
       /\ ret' = r.ret
       /\ issues' = <<>>
       /\ saved_to' = IF ~r.ret THEN "none"
                      ELSE IF out = None THEN yaml_file
                      ELSE out[1]
       /\ fs' = IF r.tried THEN io ELSE "none"
       /\ UNCHANGED <<other, content, lines, orig, cli>>

\* YamlReindenter(path): the object __init__ leaves, with the history of
\* its calls
new_session(path) ==
  [yaml_file |-> path, content |-> None, lines |-> None, orig |-> None,
   op |-> "init", ret |-> FALSE, issues |-> <<>>]

InitSession ==
  /\ other = new_session("in2")
  /\ content = None
  /\ lines = None
  /\ orig = None
  /\ op = "init"
  /\ ret = FALSE
  /\ issues = <<>>
  /\ saved_to = "none"
  /\ fs = "none"

InitNoCli ==
  /\ argv = <<>>
  /\ pc = "api"
  /\ exit_code = -1
  /\ printed = <<>>
  /\ writes = 0

\* the in-memory session on any document
Init ==
  /\ \E d \in Docs : disk = [p \in Paths |-> IF p = yaml_file THEN d ELSE Absent]
  /\ InitSession
  /\ InitNoCli

Next == Load \/ Analyze \/ Reindent

Spec == Init /\ [][Next]_vars

\* the in-memory session on the longer documents of openers and text
InitNested ==
  /\ \E d \in NestedDocs :
       disk = [p \in Paths |-> IF p = yaml_file THEN d ELSE Absent]
  /\ InitSession
  /\ InitNoCli

SpecNested == InitNested /\ [][Next]_vars

(***************************************************************************)
(* Two sessions on two files. Each makes its calls in the order load_file, *)
(* analyze, reindent, save_file; the calls of the two interleave freely.   *)
(* The second object runs the same methods with its own yaml_file.         *)
(***************************************************************************)
\* the files as the methods of an object on path see them: its yaml_file in
\* the place of the yaml_file of the first object
seen_from(path, d) ==
  [p \in Paths |-> IF p = yaml_file THEN d[path]
                   ELSE IF p = path THEN d[yaml_file]
                   ELSE d[p]]

SessionLoad == op = "init" /\ Load
SessionAnalyze == op = "load_file" /\ Analyze
SessionReindent == op = "analyze" /\ Reindent
SessionSave == op = "reindent" /\ Save

\* load_file of the second object with a line buffer that is a class
\* attribute, shared by all objects
OtherLoadSharedLines ==
  /\ other.op = "init"
  /\ \E io \in ReadIO :
       LET d == seen_from(other.yaml_file, disk)
           r == load_file(d, other.content, other.lines, io)
       IN /\ other' = [other EXCEPT !.content = r.content, !.lines = r.lines,
                                    !.orig = IF r.ret THEN d[yaml_file] ELSE @,
                                    !.op = "load_file", !.ret = r.ret,
                                    !.issues = <<>>]
          /\ lines' = r.lines
  /\ UNCHANGED <<disk, content, orig, op, ret, issues, saved_to, fs, cli>>

OtherLoad ==
  /\ other.op = "init"
  /\ \E io \in ReadIO :
       LET d == seen_from(other.yaml_file, disk)
           r == load_file(d, other.content, other.lines, io)
       IN other' = [other EXCEPT !.content = r.content, !.lines = r.lines,
                                 !.orig = IF r.ret THEN d[yaml_file] ELSE @,
                                 !.op = "load_file", !.ret = r.ret,
                                 !.issues = <<>>]
  /\ UNCHANGED <<disk, content, lines, orig, op, ret, issues, saved_to, fs, cli>>

OtherAnalyze ==
  /\ other.op = "load_file"
  /\ other' = [other EXCEPT !.issues = analyze(other.content, other.lines),
                            !.op = "analyze", !.ret = FALSE]
  /\ UNCHANGED <<disk, content, lines, orig, op, ret, issues, saved_to, fs, cli>>

OtherReindent ==
  /\ other.op = "analyze"
  /\ LET r == reindent(other.content, other.lines)
     IN other' = [other EXCEPT !.content = r.content, !.lines = r.lines,
                               !.op = "reindent", !.ret = r.ret,
                               !.issues = <<>>]
  /\ UNCHANGED <<disk, content, lines, orig, op, ret, issues, saved_to, fs, cli>>

OtherSave ==
  /\ other.op = "reindent"
  /\ \E io \in WriteIO :
       LET r == save_file(seen_from(other.yaml_file, disk), other.content, None, io)
       IN /\ disk' = seen_from(other.yaml_file, r.disk)
          /\ other' = [other EXCEPT !.op = "save_file", !.ret = r.ret,
                                    !.issues = <<>>]
  /\ UNCHANGED <<content, lines, orig, op, ret, issues, saved_to, fs, cli>>

InitPair ==
  /\ \E d1, d2 \in PairDocs :
       disk = [p \in Paths |-> IF p = yaml_file THEN d1
                               ELSE IF p = "in2" THEN d2
                               ELSE Absent]
  /\ InitSession
  /\ InitNoCli

NextPair ==
  \/ SessionLoad \/ SessionAnalyze \/ SessionReindent \/ SessionSave
  \/ OtherLoad \/ OtherAnalyze \/ OtherReindent \/ OtherSave

SpecPair == InitPair /\ [][NextPair]_vars

\* the session with its files: the input may be missing, saves overwrite it
InitFiles ==
  /\ \E d \in FileDocs \cup {Absent} :
       disk = [p \in Paths |-> IF p = yaml_file THEN d ELSE Absent]
  /\ InitSession
  /\ InitNoCli

NextFiles == Load \/ Analyze \/ Reindent \/ Save

SpecFiles == InitFiles /\ [][NextFiles]_vars

(***************************************************************************)
(* The CLI: main(), one action per call it makes.                          *)
(***************************************************************************)
\* sys.argv[2] if len(sys.argv) > 2 else None
output_file == IF Len(argv) > 2 THEN <<argv[3]>> ELSE None

\* sys.exit(code)
Exit(code) == pc' = "exit" /\ exit_code' = code

\* if len(sys.argv) < 2: usage, sys.exit(1)
MainArgs ==
  /\ pc = "start"
  /\ IF Len(argv) < 2 THEN Exit(1) ELSE pc' = "load" /\ exit_code' = exit_code
  /\ UNCHANGED <<other, disk, content, lines, orig, op, ret, issues, saved_to, fs,
                 argv, printed, writes>>

\* if not reindenter.load_file(): sys.exit(1)
MainLoad ==
  /\ pc = "load"
  /\ \E io \in ReadIO :
       LET r == load_file(disk, content, lines, io)
       IN /\ content' = r.content
          /\ lines' = r.lines
          /\ orig' = IF r.ret THEN disk[yaml_file] ELSE orig
          /\ op' = "load_file"
          /\ ret' = r.ret
          /\ fs' = IF disk[yaml_file] = Absent THEN "missing" ELSE io
          /\ IF r.ret THEN pc' = "analyze" /\ exit_code' = exit_code ELSE Exit(1)
  /\ UNCHANGED <<other, disk, issues, saved_to, argv, printed, writes>>

\* main that applies the issues it printed before it calls reindent
MainAnalyzeFixes ==
  /\ pc = "analyze"
  /\ LET iss == analyze(content, lines)
         r == fix_indentation(content, lines, iss)
     IN /\ issues' = iss
        /\ op' = "analyze"
        /\ content' = r.content
        /\ lines' = r.lines
        /\ IF iss = <<>>
           THEN Exit(0) /\ printed' = printed
           ELSE pc' = "reindent" /\ exit_code' = exit_code /\ printed' = iss
  /\ fs' = "none"
  /\ UNCHANGED <<other, disk, orig, ret, saved_to, argv, writes>>

\* MainAnalyze without the sys.exit(0) of the run that found no issue: the
\* run goes on to save
MainAnalyzeNoExit ==
  /\ pc = "analyze"
  /\ LET iss == analyze(content, lines)
     IN /\ issues' = iss
        /\ op' = "analyze"
        /\ IF iss = <<>>
           THEN pc' = "save" /\ exit_code' = exit_code /\ printed' = printed
           ELSE pc' = "reindent" /\ exit_code' = exit_code /\ printed' = iss
  /\ fs' = "none"
  /\ UNCHANGED <<other, disk, content, lines, orig, ret, saved_to, argv, writes>>

\* issues = reindenter.analyze(); no issues: sys.exit(0); else print them
MainAnalyze ==
  /\ pc = "analyze"
  /\ LET iss == analyze(content, lines)
     IN /\ issues' = iss
        /\ op' = "analyze"
        /\ IF iss = <<>>
           THEN Exit(0) /\ printed' = printed
           ELSE pc' = "reindent" /\ exit_code' = exit_code /\ printed' = iss
  /\ fs' = "none"
  /\ UNCHANGED <<other, disk, content, lines, orig, ret, saved_to, argv, writes>>

\* if reindenter.reindent(): ... else: "Failed to fix indentation", sys.exit(1)
MainReindent ==
  /\ pc = "reindent"
  /\ LET r == reindent(content, lines)
     IN /\ content' = r.content
        /\ lines' = r.lines
        /\ op' = "reindent"
        /\ ret' = r.ret
        /\ IF r.ret THEN pc' = "save" /\ exit_code' = exit_code ELSE Exit(1)
  /\ fs' = "none"
  /\ UNCHANGED <<other, disk, orig, issues, saved_to, argv, printed, writes>>

\* if reindenter.save_file(output_file): success (exit 0) else sys.exit(1)
\* main where a failed save is reported but the run still ends with status 0
MainSaveExitZero ==
  /\ pc = "save"
  /\ \E io \in WriteIO :
       LET r == save_file(disk, content, output_file, io)
       IN /\ disk' = r.disk
          /\ op' = "save_file"
          /\ ret' = r.ret
          /\ saved_to' = IF ~r.ret THEN "none"
                         ELSE IF output_file = None THEN yaml_file
                         ELSE output_file[1]
          /\ fs' = IF r.tried THEN io ELSE "none"
          /\ writes' = IF r.wrote THEN writes + 1 ELSE writes
          /\ Exit(0)
  /\ UNCHANGED <<other, content, lines, orig, issues, argv, printed>>

MainSave ==
  /\ pc = "save"
  /\ \E io \in WriteIO :
       LET r == save_file(disk, content, output_file, io)
       IN /\ disk' = r.disk
          /\ op' = "save_file"
          /\ ret' = r.ret
          /\ saved_to' = IF ~r.ret THEN "none"
                         ELSE IF output_file = None THEN yaml_file
                         ELSE output_file[1]
          /\ fs' = IF r.tried THEN io ELSE "none"
          /\ writes' = IF r.wrote THEN writes + 1 ELSE writes
          /\ IF r.ret THEN Exit(0) ELSE Exit(1)
  /\ UNCHANGED <<other, content, lines, orig, issues, argv, printed>>

InitMain ==
  /\ \E d \in FileDocs \cup {Absent} :
       disk = [p \in Paths |-> IF p = yaml_file THEN d ELSE Absent]
  /\ InitSession
  /\ argv \in {<<"prog">>, <<"prog", yaml_file>>, <<"prog", yaml_file, "out">>}
  /\ pc = "start"
  /\ exit_code = -1
  /\ printed = <<>>
  /\ writes = 0

NextMain == MainArgs \/ MainLoad \/ MainAnalyze \/ MainReindent \/ MainSave

SpecMain == InitMain /\ [][NextMain]_vars

(***************************************************************************)
(* Properties.                                                             *)
(***************************************************************************)
\* an empty or whitespace-only line
is_blank(line) == \A i \in 1..Len(line) : line[i] \in {SP, TAB}

\* the number of leading space characters of a line
RECURSIVE leading_spaces(_)
leading_spaces(line) ==
  IF line = <<>> \/ Head(line) # SP THEN 0 ELSE 1 + leading_spaces(Tail(line))

\* the part of a line from its first character that is no space and no tab
RECURSIVE body_of(_)
body_of(line) ==
  IF line = <<>> THEN <<>>
  ELSE IF Head(line) \in {SP, TAB} THEN body_of(Tail(line))
  ELSE line

\* the segments between the newlines of s, the empty one behind a final
\* newline included
RECURSIVE split_nl(_)
split_nl(s) ==
  LET i == find_nl(s, 1)
  IN IF i = 0 THEN <<s>>
     ELSE <<SubSeq(s, 1, i - 1)>> \o split_nl(SubSeq(s, i + 1, Len(s)))

\* the line numbers of a list of issues
issue_lines(iss) == {iss[k].line_num : k \in 1..Len(iss)}

\* C1: idempotence. On a loaded session, right after a reindent, another
\* reindent leaves the line buffer and the content as they are and analyze
\* returns the empty list.
C1_Idempotent ==
  [][(content # None /\ op = "reindent")
       => /\ (op' = "reindent" => lines' = lines /\ content' = content)
          /\ (op' = "analyze" => issues' = <<>>)]_vars

\* every non-blank line of every detected opener's content range has exactly
\* pipe_indent + 2 leading spaces
Converged(ls) ==
  LET blocks == detect_pipe_blocks(ls)
  IN \A k \in 1..Len(blocks) :
       LET bc == get_block_content(ls, blocks[k].line_num, blocks[k].pipe_indent)
       IN \A j \in 1..Len(bc.content_lines) :
            LET line == ls[bc.content_lines[j] + 1]
            IN ~is_blank(line) => leading_spaces(line) = blocks[k].pipe_indent + 2

\* C2: convergence. Right after a reindent of a loaded session, every
\* non-blank line in the content range of every opener of the resulting
\* document has exactly that opener's pipe_indent + 2 leading spaces.
C2_Convergence == (content # None /\ op = "reindent") => Converged(lines)

\* b is a with nothing changed but the leading whitespace of the reported
\* lines: the same segments between the same newlines
SameButIndent(a, b, reported) ==
  LET sa == split_nl(a)
      sb == split_nl(b)
  IN /\ Len(sa) = Len(sb)
     /\ \A i \in 1..Len(sa) :
          IF (i - 1) \in reported THEN body_of(sb[i]) = body_of(sa[i])
          ELSE sb[i] = sa[i]

\* C3: surgical rewrite of the file. After load, reindent and save, the
\* file written differs from the file read only in the leading whitespace of
\* the lines analyze reported; every other byte, blank lines at the end and
\* line terminators included, is the same. Stated for the files that end
\* with a newline, to which save_file appends nothing.
C3_SurgicalFile ==
  (pc = "exit" /\ saved_to # "none" /\ orig[Len(orig)] = NL)
    => SameButIndent(orig, disk[saved_to], issue_lines(printed))

\* a session as loaded whose analyze returns no issue
Clean == content # None /\ content = orig /\ analyze(content, lines) = <<>>

\* C4 as stated: on a clean document reindent returns false and changes
\* nothing, and a save writes a file byte-identical to the file read.
C4_NoOpByteIdentical ==
  [][Clean
       => /\ (op' = "reindent" => ~ret' /\ lines' = lines /\ content' = content)
          /\ (op' = "save_file" /\ ret' => disk'[saved_to'] = orig)]_vars

\* C4 as amended: on a clean document reindent returns false and changes
\* nothing, and a save that succeeds writes the bytes read, followed by one
\* newline when they do not end with one (byte-identical exactly when the
\* file read ends with a newline).
C4_NoOp ==
  [][Clean
       => /\ (op' = "reindent" => ~ret' /\ lines' = lines /\ content' = content)
          /\ (op' = "save_file" /\ ret'
                => disk'[saved_to'] =
                     IF orig[Len(orig)] = NL THEN orig ELSE orig \o <<NL>>)]_vars

\* a clean document without a final newline was saved with one appended
C4_Witness ==
  /\ op = "save_file" /\ ret /\ Clean
  /\ orig[Len(orig)] # NL
  /\ Len(lines) > 1
  /\ disk[saved_to] = orig \o <<NL>>

\* C5: non-interference. A reindent of a loaded session leaves every empty
\* and every whitespace-only line of the line buffer as it is.
C5_NonInterference ==
  [][(content # None /\ op' = "reindent")
       => /\ Len(lines') = Len(lines)
          /\ \A i \in 1..Len(lines) : is_blank(lines[i]) => lines'[i] = lines[i]]_vars

\* a reindent rewrote a line while a whitespace-only line of a content range
\* is not at the expected indentation
C5_Witness ==
  /\ op = "reindent" /\ ret
  /\ \E k \in 1..Len(detect_pipe_blocks(lines)) :
       LET b == detect_pipe_blocks(lines)[k]
           bc == get_block_content(lines, b.line_num, b.pipe_indent)
       IN \E j \in 1..Len(bc.content_lines) :
            LET line == lines[bc.content_lines[j] + 1]
            IN line # <<>> /\ is_blank(line) /\ Len(line) # bc.expected_indent

\* C6: content preservation. Every line a reindent rewrites becomes
\* expected_indent spaces followed by the old line without its leading
\* whitespace, for the expected_indent of an issue analyze reports for that
\* line; the part from the first non-whitespace character on is the same.
C6_ContentPreserved ==
  [][(content # None /\ op' = "reindent")
       => \A i \in 1..Len(lines) :
            lines'[i] # lines[i]
              => /\ body_of(lines'[i]) = body_of(lines[i])
                 /\ \E k \in 1..Len(analyze(content, lines)) :
                      LET issue == analyze(content, lines)[k]
                      IN /\ issue.line_num = i - 1
                         /\ lines'[i] = spaces(issue.expected_indent)
                                          \o body_of(lines[i])]_vars

\* a reindent rewrote a line that has a tab before its text and a space
\* after it
C6_Witness ==
  /\ op = "reindent" /\ ret
  /\ \E i \in 1..Len(lines) :
       /\ lines[i] # splitlines(orig)[i]
       /\ lines[i][Len(lines[i])] = SP
       /\ body_of(lines[i]) = <<"a", SP>>

\* C7: whenever save_file writes a file, the bytes written end with a
\* newline: they are the content, followed by one newline exactly when the
\* content does not end with one.
C7_TrailingNewline ==
  [][(op' = "save_file" /\ ret')
       => LET w == disk'[saved_to']
          IN /\ w[Len(w)] = NL
             /\ w = IF content[Len(content)] = NL THEN content
                    ELSE content \o <<NL>>]_vars

\* a content without a final newline was saved, and one with a final newline
\* is on the disk
C7_Witness ==
  /\ op = "save_file" /\ ret
  /\ content[Len(content)] # NL
  /\ disk[saved_to] = content \o <<NL>>

\* C8: before any successful load, analyze returns the empty list, reindent
\* and save_file return false, no file changes and content and lines stay
\* unset.
C8_Unloaded ==
  [][(content = None /\ op' \in {"analyze", "reindent", "save_file"})
       => /\ issues' = <<>>
          /\ ~ret'
          /\ disk' = disk
          /\ content' = None
          /\ lines' = None]_vars

\* save_file was called on the session that never loaded, with a file on
\* the disk
C8_Witness ==
  /\ content = None /\ op = "save_file" /\ ~ret
  /\ disk[yaml_file] # Absent

\* analyze, reindent and save_file treat the session as loaded
TreatedAsLoaded == content # None /\ content # <<>>

\* C9: session state machine. The session becomes loaded only through a
\* successful load_file, and no call takes a loaded session back to a state
\* that analyze, reindent and save_file treat as unloaded.
C9_StateMachine ==
  [][/\ (~TreatedAsLoaded /\ TreatedAsLoaded' => op' = "load_file" /\ ret')
     /\ (TreatedAsLoaded => TreatedAsLoaded')]_vars

\* C10: in a CLI run a file is written only once the input was loaded and
\* analyze returned an issue, and at most one write happens; no file changes
\* otherwise.
C10_WriteOnlyToFix ==
  [][(disk' # disk \/ writes' # writes)
       => /\ orig # None
          /\ printed # <<>>
          /\ writes = 0
          /\ writes' = 1]_vars

\* a run with an output-file argument wrote its one file and exited with 0
C10_Witness ==
  /\ pc = "exit" /\ exit_code = 0
  /\ writes = 1
  /\ Len(argv) > 2
  /\ disk["out"] # Absent

\* the four outcomes of a run that the exit codes distinguish
LoadFailed == op = "load_file" /\ ~ret
SaveFailed == op = "save_file" /\ ~ret
NoIssues == op = "analyze" /\ issues = <<>>
FixedAndSaved == op = "save_file" /\ ret /\ printed # <<>>

\* the run was started without an input-file argument
UsageError == op = "init" /\ Len(argv) < 2

\* C11: CLI exit codes. The run ends as soon as load fails, save fails,
\* analyze finds no issue or the save succeeded, and a run that has ended
\* exited with 1 after a failed load or a failed save, or with 0 after
\* analyze found no issue or after issues were found and saved; no run ends
\* in any other way.
C11_ExitCodes ==
  /\ (LoadFailed \/ SaveFailed \/ NoIssues \/ FixedAndSaved => pc = "exit")
  /\ (pc = "exit" =>
        \/ exit_code = 1 /\ LoadFailed
        \/ exit_code = 1 /\ SaveFailed
        \/ exit_code = 0 /\ NoIssues
        \/ exit_code = 0 /\ FixedAndSaved)

\* C11 (amended): as C11_ExitCodes, with the one further outcome of main:
\* a run started without an input-file argument exits with 1 before any load.
C11_ExitCodesWithUsage ==
  /\ (LoadFailed \/ SaveFailed \/ NoIssues \/ FixedAndSaved => pc = "exit")
  /\ (pc = "exit" =>
        \/ exit_code = 1 /\ UsageError
        \/ exit_code = 1 /\ LoadFailed
        \/ exit_code = 1 /\ SaveFailed
        \/ exit_code = 0 /\ NoIssues
        \/ exit_code = 0 /\ FixedAndSaved)

\* a run found issues, fixed them, failed to save and exited with 1
C11_Witness ==
  /\ pc = "exit" /\ exit_code = 1
  /\ SaveFailed
  /\ printed # <<>>
  /\ fs = "write_error"

\* the file system refused the last call
ReadFailed == fs \in {"missing", "error"}
WriteFailed == fs \in {"open_error", "write_error"}

\* C12: a load_file whose file is missing or unreadable and a save_file whose
\* open or write fails return false, and every load_file or save_file that
\* returns false leaves content and lines exactly as they were before the
\* call.
C12_FailureContained ==
  [][/\ (op' = "load_file" /\ ReadFailed' => ret' = FALSE)
     /\ (op' = "save_file" /\ WriteFailed' => ret' = FALSE)
     /\ (op' \in {"load_file", "save_file"} /\ ret' = FALSE
           => content' = content /\ lines' = lines)]_vars

\* a load that failed on a readable-before file kept the loaded content
C12_Witness ==
  /\ op = "load_file" /\ ~ret
  /\ fs = "error"
  /\ content # None /\ lines # None
  /\ content = orig

\* C13: a save_file that succeeds without an output path writes the content
\* to the source path; one that succeeds with another output path writes the
\* content to that path; in both cases every other path keeps its bytes, so
\* a save to another path leaves the original file as it was.
C13_SaveDestination ==
  [][op' = "save_file" /\ ret'
       => /\ saved_to' \in Paths
          /\ disk'[saved_to'] = written_bytes(content)
          /\ \A p \in Paths \ {saved_to'} : disk'[p] = disk[p]]_vars

\* fixed content was saved to the output path and the source file still
\* holds the bytes that were read
C13_Witness ==
  /\ op = "save_file" /\ ret
  /\ saved_to = "out"
  /\ disk["out"] = written_bytes(content)
  /\ disk[yaml_file] = orig
  /\ disk["out"] # disk[yaml_file]

\* the content range get_block_content computes for a detected opener
content_range(ls, block) ==
  LET cl == get_block_content(ls, block.line_num, block.pipe_indent).content_lines
  IN {cl[k] : k \in 1..Len(cl)}

\* C14: content ranges are disjoint. In a loaded document no line index is in
\* the content ranges of two different detected openers.
C14_DisjointRanges ==
  lines # None =>
    LET blocks == detect_pipe_blocks(lines)
    IN \A i, j \in 1..Len(blocks) :
         i # j => content_range(lines, blocks[i]) \cap content_range(lines, blocks[j]) = {}

\* C15: the line_num values of the list analyze returns are weakly
\* increasing from the first issue to the last.
C15_IssuesAscending ==
  op = "analyze" =>
    \A k \in 1..(Len(issues) - 1) : issues[k].line_num <= issues[k + 1].line_num

\* C16: the only precondition of save_file is that the session is loaded. On
\* a session whose content is set, the empty string included, a save_file
\* reaches the file system, and returns true with the file written when the
\* file system accepts the write; a save_file returns false only on a session
\* that was never loaded or when the open or the write failed.
C16_SaveOnlyNeedsLoaded ==
  [][op' = "save_file"
       => /\ (content # None => fs' # "none")
          /\ (content # None /\ fs' = "ok"
                => ret' /\ disk'[saved_to'] = written_bytes(content))
          /\ (~ret' => content = None \/ WriteFailed')]_vars

\* a session run alone on a file with the bytes d: what its load_file reads,
\* what its analyze returns and what its reindent leaves
alone_loaded(d) ==
  load_file([p \in Paths |-> IF p = yaml_file THEN d ELSE Absent], None, None, "ok")
alone_issues(d) == analyze(alone_loaded(d).content, alone_loaded(d).lines)
alone_fixed(d) == reindent(alone_loaded(d).content, alone_loaded(d).lines)

\* what a session holds after its last call is what it holds when run alone
\* on the bytes it read
AsAlone(s) ==
  s.orig # None =>
    /\ (s.op = "load_file" => s.content = s.orig /\ s.lines = alone_loaded(s.orig).lines)
    /\ (s.op = "analyze" => s.issues = alone_issues(s.orig))
    /\ (s.op \in {"reindent", "save_file"}
          => s.content = alone_fixed(s.orig).content /\ s.lines = alone_fixed(s.orig).lines)
    /\ (s.op = "reindent" => s.ret = alone_fixed(s.orig).ret)

\* the first object as a record of the fields of the second
this_session ==
  [yaml_file |-> yaml_file, content |-> content, lines |-> lines, orig |-> orig,
   op |-> op, ret |-> ret, issues |-> issues]

\* C17: session isolation. With two sessions on two files whose calls
\* interleave, a call of one session leaves the content, the line buffer and
\* the results of the other session and the files of the other session as
\* they are, and what each session holds and each file a save wrote are what
\* the session gives when run alone on its file.
C17_Isolation ==
  [][/\ (other' # other
           => /\ this_session' = this_session
              /\ \A p \in Paths \ {other.yaml_file} : disk'[p] = disk[p])
     /\ (this_session' # this_session
           => /\ other' = other
              /\ disk'[other.yaml_file] = disk[other.yaml_file])
     /\ AsAlone(this_session') /\ AsAlone(other')
     /\ (op' = "save_file" /\ ret'
           => disk'[saved_to'] = written_bytes(alone_fixed(orig).content))
     /\ (other'.op = "save_file" /\ other'.ret
           => disk'[other.yaml_file] = written_bytes(alone_fixed(other.orig).content))
    ]_vars

\* both sessions fixed and saved their files, two files of different bytes
C17_Witness ==
  /\ op = "save_file" /\ ret /\ saved_to = yaml_file
  /\ other.op = "save_file" /\ other.ret
  /\ content # orig /\ other.content # other.orig
  /\ disk[yaml_file] = written_bytes(content)
  /\ disk[other.yaml_file] = written_bytes(other.content)
  /\ orig # other.orig

\* the indentation of a line: the number of characters before its body
indentation(line) == Len(line) - Len(body_of(line))

\* a line that belongs to the block of an opener at pipe_indent
in_block(line, pipe_indent) == is_blank(line) \/ indentation(line) > pipe_indent

\* C18: for every line buffer analyze ran on and every start_line and
\* pipe_indent, get_block_content
\* returns pipe_indent + 2 and the indices start_line + 1, start_line + 2, ...
\* of the longest run of lines that are blank or indented by more than
\* pipe_indent: the run ends at the end of the document or before the first
\* non-blank line indented by pipe_indent or less.
C18_ContentScanner ==
  op = "analyze" /\ lines # None =>
    \A start_line \in (0 - 1)..(Len(lines) - 1), pipe_indent \in 0..(MaxIndent + 1) :
      LET r == get_block_content(lines, start_line, pipe_indent)
          n == Len(r.content_lines)
      IN /\ r.expected_indent = pipe_indent + 2
         /\ \A k \in 1..n :
              /\ r.content_lines[k] = start_line + k
              /\ in_block(lines[start_line + k + 1], pipe_indent)
         /\ (start_line + n + 1 < Len(lines)
               => ~in_block(lines[start_line + n + 2], pipe_indent))

\* analyze ran on an opener followed by a whitespace-only line and a line
\* at the indentation of the opener: the block is the whitespace-only line
C18_Witness ==
  /\ op = "analyze"
  /\ Len(lines) = 3
  /\ re_search_pipe(lines[1]) /\ indentation(lines[1]) = 1
  /\ lines[2] # <<>> /\ is_blank(lines[2])
  /\ ~is_blank(lines[3]) /\ indentation(lines[3]) = 1
  /\ get_block_content(lines, 0, 1).content_lines = <<1>>

\* the elements of a set of numbers in ascending order
RECURSIVE ascending(_)
ascending(S) ==
  IF S = {} THEN <<>>
  ELSE LET m == CHOOSE x \in S : \A y \in S : x <= y
       IN <<m>> \o ascending(S \ {m})

\* the listed lines that are not blank and not at expected_indent
deviating(ls, S, expected_indent) ==
  {i \in S : ~is_blank(ls[i + 1]) /\ indentation(ls[i + 1]) # expected_indent}

\* C19: for every ascending list of distinct line indices and every
\* expected_indent, check_indentation returns one issue for each listed
\* non-blank line whose indentation differs from expected_indent and no
\* other issue, in strictly ascending line_num order, each issue with the
\* indentation of its line and the given expected_indent.
C19_IndentChecker ==
  op = "analyze" /\ lines # None =>
    \A S \in SUBSET (0..(Len(lines) - 1)), expected_indent \in 0..(MaxIndent + 2) :
      LET r == check_indentation(lines, ascending(S), expected_indent)
      IN /\ Len(r) = Cardinality(deviating(lines, S, expected_indent))
         /\ issue_lines(r) = deviating(lines, S, expected_indent)
         /\ \A k \in 1..(Len(r) - 1) : r[k].line_num < r[k + 1].line_num
         /\ \A k \in 1..Len(r) :
              /\ r[k].current_indent = indentation(lines[r[k].line_num + 1])
              /\ r[k].expected_indent = expected_indent

\* analyze ran on a block with a whitespace-only line, a line at the
\* expected indentation and a line indented too far: one issue, for the last
C19_Witness ==
  /\ op = "analyze"
  /\ Len(lines) = 3
  /\ lines[1] # <<>> /\ is_blank(lines[1])
  /\ ~is_blank(lines[2]) /\ indentation(lines[2]) = 1
  /\ ~is_blank(lines[3]) /\ indentation(lines[3]) = 2
  /\ Len(check_indentation(lines, <<0, 1, 2>>, 1)) = 1
  /\ check_indentation(lines, <<0, 1, 2>>, 1)[1].line_num = 2

\* a list of issues in the order f, a permutation of its indices
reordered(iss, f) == [k \in 1..Len(iss) |-> iss[f[k]]]

\* C20: the issues reindent passes to fix_indentation address pairwise
\* distinct lines, and the line buffer reindent leaves is the one fix gives
\* for every processing order of those issues.
C20_OrderIndependent ==
  [][op' = "reindent" /\ ret'
       => LET iss == analyze(content, lines)
          IN /\ \A i, j \in 1..Len(iss) :
                  i # j => iss[i].line_num # iss[j].line_num
             /\ \A f \in Permutations(1..Len(iss)) :
                  fix_all(lines, reordered(iss, f)) = lines']_vars

\* C21: the boolean of fix_indentation and reindent reports mutation. With
\* the empty list fix_indentation returns false and leaves lines and content
\* as they are, and so does a reindent whose analyze finds no issue; a
\* reindent whose analyze finds issues returns true and leaves a line buffer
\* in which at least one line differs from before.
C21_ReturnReportsMutation ==
  [][op' = "reindent"
       => /\ (lines # None
               => fix_indentation(content, lines, <<>>)
                    = [content |-> content, lines |-> lines, ret |-> FALSE])
          /\ (analyze(content, lines) = <<>>
               => ~ret' /\ lines' = lines /\ content' = content)
          /\ (analyze(content, lines) # <<>>
               => /\ ret'
                  /\ Len(lines') = Len(lines)
                  /\ \E i \in 1..Len(lines) : lines'[i] # lines[i])]_vars

\* a reindent returned true on a document read with a final newline, and
\* the next one returned false
C21_Witness ==
  /\ op = "reindent" /\ ~ret
  /\ content # None /\ content # orig
  /\ orig[Len(orig)] = NL

\* a colon, then zero or more space characters, then the pipe, from
\* position j of line on
RECURSIVE spaces_then_pipe(_, _)
spaces_then_pipe(line, j) ==
  IF j > Len(line) THEN FALSE
  ELSE IF line[j] = "|" THEN TRUE
  ELSE IF line[j] = SP THEN spaces_then_pipe(line, j + 1)
  ELSE FALSE

is_opener(line) ==
  \E i \in 1..Len(line) : line[i] = ":" /\ spaces_then_pipe(line, i + 1)

\* C22: detect_pipe_blocks returns one opener for each line that holds a
\* colon followed by zero or more space characters and the pipe, and for no
\* other line (a tab between colon and pipe makes no opener), in ascending
\* line order with no line_num twice.
C22_BlockDetector ==
  lines # None =>
    LET blocks == detect_pipe_blocks(lines)
    IN /\ {blocks[k].line_num : k \in 1..Len(blocks)}
            = {i \in 0..(Len(lines) - 1) : is_opener(lines[i + 1])}
       /\ \A k \in 1..(Len(blocks) - 1) : blocks[k].line_num < blocks[k + 1].line_num

\* C23: indentation is the number of leading space characters. The
\* pipe_indent of every detected opener and the current_indent of every
\* issue of analyze equal the number of leading spaces of their line, and a
\* non-blank line with no more leading spaces than the opener ends its
\* block.
C23_SpacesOnly ==
  op = "analyze" /\ lines # None =>
    LET blocks == detect_pipe_blocks(lines)
    IN /\ \A k \in 1..Len(blocks) :
            /\ blocks[k].pipe_indent = leading_spaces(blocks[k].key_line)
            /\ \A i \in content_range(lines, blocks[k]) :
                 is_blank(lines[i + 1])
                   \/ leading_spaces(lines[i + 1]) > blocks[k].pipe_indent
       /\ \A k \in 1..Len(issues) :
            issues[k].current_indent = leading_spaces(lines[issues[k].line_num + 1])

\* C24: analysis is pure and deterministic. An analyze leaves lines and
\* content as they are, an analyze right after an analyze returns the same
\* list, and the document of a session changes only in a load_file or in a
\* reindent that returns true.
C24_AnalysisPure ==
  [][/\ (op' = "analyze"
           => /\ content' = content /\ lines' = lines
              /\ (op = "analyze" => issues' = issues)
              /\ issues' = analyze(content', lines'))
     /\ (content' # content \/ lines' # lines
           => ret' /\ op' \in {"load_file", "reindent"})]_vars

\* analyze returned two issues on the document as it was read
C24_Witness ==
  /\ op = "analyze"
  /\ orig # None
  /\ content = orig /\ lines = splitlines(orig)
  /\ Len(issues) >= 2

\* C25: index-stable line buffer. Whatever calls were made since the load,
\* the line buffer has as many lines as the load read, and a reindent
\* changes only lines whose index is in the list analyze returns for the
\* state before it.
C25_IndexStable ==
  [][/\ (lines' # None => Len(lines') = Len(splitlines(orig')))
     /\ (op' = "reindent" /\ lines # None
           => \A i \in 1..Len(lines) :
                (i - 1) \notin issue_lines(analyze(content, lines))
                  => lines'[i] = lines[i])]_vars

\* a reindent rewrote one line of three and left a line with trailing
\* whitespace as it was
C25_Witness ==
  /\ op = "reindent" /\ ret
  /\ Len(lines) = 3
  /\ \E i, j \in 1..3 :
       /\ lines[i] # splitlines(orig)[i]
       /\ lines[j] = splitlines(orig)[j]
       /\ rstrip(lines[j]) # lines[j]

\* reindent called again and again on the session (c, ls) returns false
\* before the session comes back to a line buffer of seen
RECURSIVE returns_false_before_repeat(_, _, _)
returns_false_before_repeat(c, ls, seen) ==
  LET r == reindent(c, ls)
  IN IF ~r.ret THEN TRUE
     ELSE IF r.lines \in seen \cup {ls} THEN FALSE
     ELSE returns_false_before_repeat(r.content, r.lines, seen \cup {ls})

\* C26: a fixed point is reached. From every state of a loaded session,
\* reindent called again and again returns false after finitely many calls:
\* the line buffer never comes back to one it had, also when openers lie
\* inside the blocks of other openers.
C26_FixedPointReached ==
  lines # None => returns_false_before_repeat(content, lines, {})

\* a reindent returned false on a document with an opener inside the block
\* of another opener, two rewrites of its last line after the load
C26_Witness ==
  /\ op = "reindent" /\ ~ret
  /\ lines # None /\ Len(lines) = 3
  /\ LET blocks == detect_pipe_blocks(lines)
     IN /\ Len(blocks) = 2
        /\ blocks[2].line_num \in content_range(lines, blocks[1])
  /\ lines[3] # splitlines(orig)[3]
  /\ lines[2] # splitlines(orig)[2]

\* no opener line of ls lies in the content range of another opener
NoNestedOpener(ls) ==
  LET blocks == detect_pipe_blocks(ls)
  IN \A i, j \in 1..Len(blocks) :
       blocks[i].line_num \notin content_range(ls, blocks[j])

\* C27: on a loaded document in which no opener line lies in the content
\* range of another opener, the content ranges are pairwise disjoint,
\* analyze reports no line twice, and after one reindent analyze returns the
\* empty list.
C27_OnePassSuffices ==
  [][op' = "reindent" /\ lines # None /\ NoNestedOpener(lines)
       => LET blocks == detect_pipe_blocks(lines)
              iss == analyze(content, lines)
          IN /\ \A i, j \in 1..Len(blocks) :
                  i # j => content_range(lines, blocks[i])
                             \cap content_range(lines, blocks[j]) = {}
             /\ \A i, j \in 1..Len(iss) :
                  i # j => iss[i].line_num # iss[j].line_num
             /\ analyze(content', lines') = <<>>]_vars

\* one reindent fixed the blocks of two openers that follow each other
C27_Witness ==
  /\ op = "reindent" /\ ret
  /\ Len(lines) = 4
  /\ Len(detect_pipe_blocks(lines)) = 2
  /\ NoNestedOpener(splitlines(orig))
  /\ lines[2] # splitlines(orig)[2]
  /\ lines[4] # splitlines(orig)[4]
  /\ analyze(content, lines) = <<>>

\* C28: reindent never changes which lines are openers. detect_pipe_blocks
\* returns the same line_num values before and after a reindent, and an
\* opener whose pipe_indent differs after it lay in the content range of
\* another opener before it.
C28_OpenersStable ==
  [][op' = "reindent" /\ lines # None
       => LET before == detect_pipe_blocks(lines)
              after == detect_pipe_blocks(lines')
          IN /\ Len(after) = Len(before)
             /\ \A k \in 1..Len(before) :
                  /\ after[k].line_num = before[k].line_num
                  /\ (after[k].pipe_indent # before[k].pipe_indent
                        => \E j \in 1..Len(before) :
                             /\ j # k
                             /\ before[k].line_num
                                  \in content_range(lines, before[j]))]_vars

\* a reindent moved an opener that lies in the block of the first line
C28_Witness ==
  /\ op = "reindent" /\ ret
  /\ Len(lines) >= 2
  /\ re_search_pipe(lines[1]) /\ re_search_pipe(lines[2])
  /\ lines[1] = splitlines(orig)[1]
  /\ lines[2] # splitlines(orig)[2]

\* C29: every issue analyze returns is for a line in the content range of an
\* opener, with expected_indent that opener's pipe_indent + 2 and
\* current_indent above that opener's pipe_indent, so current_indent is at
\* least expected_indent - 1: a line at or below the indentation of the
\* opener is never flagged on its behalf.
C29_FlaggedAboveOpener ==
  op = "analyze" /\ lines # None =>
    \A k \in 1..Len(issues) :
      /\ issues[k].current_indent >= issues[k].expected_indent - 1
      /\ \E b \in {detect_pipe_blocks(lines)[j] : j \in 1..Len(detect_pipe_blocks(lines))} :
           /\ issues[k].line_num \in content_range(lines, b)
           /\ issues[k].expected_indent = b.pipe_indent + 2
           /\ issues[k].current_indent > b.pipe_indent

\* analyze flagged a line one column above its opener, and the line after
\* it, at the indentation of the opener, ended the block
C29_Witness ==
  /\ op = "analyze"
  /\ Len(issues) = 1
  /\ issues[1].current_indent = issues[1].expected_indent - 1
  /\ issues[1].line_num = 1
  /\ Len(lines) = 3
  /\ ~is_blank(lines[3])
  /\ indentation(lines[3]) = indentation(lines[1])

\* C30: in a CLI run the issues repaired are the issues printed. The analyze
\* inside reindent returns the list that was printed, which is not empty, so
\* reindent applies that list and returns true and the run goes on to the
\* save: it never ends with 'Failed to fix indentation'.
C30_RepairsWhatWasPrinted ==
  [][op' = "reindent"
       => /\ printed # <<>>
          /\ analyze(content, lines) = printed
          /\ lines' = fix_all(lines, printed)
          /\ ret'
          /\ pc' = "save"]_vars

\* the run printed two issues, reindent repaired them and the save is next
C30_Witness ==
  /\ pc = "save"
  /\ op = "reindent" /\ ret
  /\ Len(printed) >= 2
  /\ lines = fix_all(splitlines(orig), printed)
  /\ lines # splitlines(orig)

====
